---- MODULE Spec2Model ----
(***************************************************************************)
(* A model of jbg-api-util: the Server (request router) of lib/server.js   *)
(* and the Client (endpoint resolver) of lib/client.js.                    *)
(*                                                                         *)
(* JavaScript values are records tagged by their typeof.  Strings that the *)
(* code parses (the request url, the Authorization header, endpoint keys)  *)
(* are sequences of tokens, so that split, join and the regular            *)
(* expressions are computed; all other strings are atoms.                  *)
(***************************************************************************)
EXTENDS Integers, Sequences, FiniteSets, TLC

VARIABLES
    sep,                \* path.sep of the host platform
    endpoints,          \* options.endpoints: the registry (Server and Client)
    includeRequestId,   \* Server option
    headerParams,       \* Server option: names of extra headers
    endpointInstances,  \* Server.endpointInstances: own properties
    constructed,        \* number of handler instances constructed so far
    reqs,               \* the inbound requests in flight, by slot
    clientInstances,    \* Client.endpointInstances: own properties
    calls               \* the invocations of Client.call in flight, by slot

vars == <<sep, endpoints, includeRequestId, headerParams,
          endpointInstances, constructed, reqs, clientInstances, calls>>

clientVars == <<clientInstances, calls>>
serverVars == <<includeRequestId, headerParams, endpointInstances, reqs>>

----------------------------------------------------------------------------
(* Bounds *)

MaxReqs == 2
\* the most keys a request body and a query string carry
MaxBodyKeys == 2
MaxQueryKeys == 1

Reqs == 1..MaxReqs

----------------------------------------------------------------------------
(* JavaScript values *)

Undef == [t |-> "undefined"]
Null == [t |-> "null"]
\* a string is a sequence of tokens; Str makes the one-token string
StrSeq(q) == [t |-> "string", s |-> q]
Str(s) == StrSeq(<<s>>)
Num(n) == [t |-> "number", n |-> n]
Obj(f) == [t |-> "object", f |-> f]

EmptyFcn == [k \in {} |-> Undef]

IsNullish(v) == v.t \in {"undefined", "null"}

\* v[k] on a value that is not null or undefined
GetProp(v, k) ==
    IF v.t = "object" /\ k \in DOMAIN v.f THEN v.f[k] ELSE Undef

\* v.hasOwnProperty(k) on a value that is not null or undefined
HasOwnProperty(v, k) == v.t = "object" /\ k \in DOMAIN v.f

\* obj[k] = v
SetProp(o, k, v) == Obj((k :> v) @@ o.f)

\* JavaScript truthiness
Truthy(v) ==
    CASE v.t \in {"undefined", "null"} -> FALSE
      [] v.t = "string" -> v.s # <<>>
      [] v.t = "number" -> v.n # 0
      [] v.t = "boolean" -> v.b
      [] OTHER -> TRUE

\* what JSON.stringify keeps of a value: a property whose value is undefined
\* is dropped
RECURSIVE Json(_)
Json(v) ==
    IF v.t = "object"
    THEN Obj([k \in {x \in DOMAIN v.f : v.f[x].t # "undefined"} |-> Json(v.f[k])])
    ELSE v

\* an Error thrown by the runtime: it has a message and no status
TypeError == Obj("message" :> Str("TypeError"))

----------------------------------------------------------------------------
(* Strings as token sequences *)

\* String.prototype.split(d)
RECURSIVE Split(_, _)
Split(s, d) ==
    IF \E i \in 1..Len(s) : s[i] = d
    THEN LET i == CHOOSE x \in 1..Len(s) :
                      s[x] = d /\ \A j \in 1..(x - 1) : s[j] # d
         IN <<SubSeq(s, 1, i - 1)>> \o Split(SubSeq(s, i + 1, Len(s)), d)
    ELSE <<s>>

\* Array.prototype.join(d)
RECURSIVE Join(_, _)
Join(segments, d) ==
    IF Len(segments) = 0 THEN <<>>
    ELSE IF Len(segments) = 1 THEN segments[1]
    ELSE segments[1] \o <<d>> \o Join(Tail(segments), d)

\* originalUrl.match(/\/api\/([^?]*)/): the capture group, or no match
MatchApi(url) ==
    LET starts == {i \in 1..(Len(url) - 2) :
                      url[i] = "/" /\ url[i + 1] = "api" /\ url[i + 2] = "/"}
    IN IF starts = {} THEN [matched |-> FALSE, apiUrl |-> <<>>]
       ELSE LET i == CHOOSE x \in starts : \A y \in starts : x <= y
                rest == SubSeq(url, i + 3, Len(url))
                stops == {j \in 1..Len(rest) : rest[j] = "?"}
                n == IF stops = {} THEN Len(rest)
                     ELSE (CHOOSE x \in stops : \A y \in stops : x <= y) - 1
            IN [matched |-> TRUE, apiUrl |-> SubSeq(rest, 1, n)]

----------------------------------------------------------------------------
(* The endpoint registry and the instance cache: plain objects *)

\* the property names every plain object inherits from Object.prototype
ObjectPrototypeKeys == {<<"constructor">>}

\* a registry entry: a url (a string) or a handler class (a function) with
\* the verbs its instances implement
Remote(u) == [type |-> "string", methods |-> {}, url |-> u, id |-> 0]
Local(ms) == [type |-> "function", methods |-> ms, url |-> "", id |-> 0]
\* a handler instance: the n-th object constructed
Instance(ms, n) == [type |-> "object", methods |-> ms, url |-> "", id |-> n]
\* an inherited member such as Object: a function that has no verb method
BuiltinFunction == [type |-> "function", methods |-> {}, url |-> "", id |-> 0]
NoValue == [type |-> "undefined", methods |-> {}, url |-> "", id |-> 0]

\* this.endpoints[k] and this.endpointInstances[k]: an own property, else an
\* inherited one, else undefined
Lookup(object, k) ==
    IF k \in DOMAIN object THEN object[k]
    ELSE IF k \in ObjectPrototypeKeys THEN BuiltinFunction
    ELSE NoValue

\* a registry entry or cache entry is truthy unless it is undefined (or "")
Present(e) == e.type \in {"function", "object"} \/ (e.type = "string" /\ e.url # "")

----------------------------------------------------------------------------
(* The response sink: an express response *)

NewResponse ==
    [statusCode |-> Num(200), sent |-> 0, kind |-> "none",
     status |-> Undef, body |-> Undef]

\* writeHead accepts an integer status from 100 to 999 and throws otherwise
ValidStatus(v) == v.t = "number" /\ v.n >= 100 /\ v.n <= 999

\* res.status(code)
ResStatus(res, code) == [res EXCEPT !.statusCode = code]

\* res.json(body): sends the encoded body with the status set so far; throws
\* when the status is no valid code or a response was already sent
ResJson(res, body) ==
    IF ValidStatus(res.statusCode) /\ res.sent = 0
    THEN [res |-> [res EXCEPT !.sent = @ + 1, !.kind = "json",
                              !.status = res.statusCode, !.body = Json(body)],
          threw |-> FALSE]
    ELSE [res |-> res, threw |-> TRUE]

\* res.redirect(url): status 302 and a Location, no encoded body
ResRedirect(res, url) ==
    IF res.sent = 0
    THEN [res |-> [res EXCEPT !.sent = @ + 1, !.kind = "redirect",
                              !.status = Num(302), !.body = url],
          threw |-> FALSE]
    ELSE [res |-> res, threw |-> TRUE]

----------------------------------------------------------------------------
(* Server *)

\* respondWithError answering every failure with status 500
respondWithError_Status500(res, e) ==
    IF IsNullish(e) THEN [res |-> res, threw |-> TRUE]
    ELSE ResJson(ResStatus(res, Num(500)),
                 Obj("error" :> Obj(("code" :> GetProp(e, "status"))
                                    @@ ("message" :> GetProp(e, "message")))))

respondWithError(res, e) ==
    IF IsNullish(e) THEN [res |-> res, threw |-> TRUE]
    ELSE ResJson(ResStatus(res, GetProp(e, "status")),
                 Obj("error" :> Obj(("code" :> GetProp(e, "status"))
                                    @@ ("message" :> GetProp(e, "message")))))

\* respondWithSuccess testing _redirect before _raw
respondWithSuccess_RedirectFirst(response, result) ==
    IF IsNullish(result) THEN [res |-> response, threw |-> TRUE]
    ELSE IF HasOwnProperty(result, "_redirect")
    THEN ResRedirect(response, GetProp(result, "_redirect"))
    ELSE IF HasOwnProperty(result, "_raw")
    THEN ResJson(response, GetProp(result, "_raw"))
    ELSE IF HasOwnProperty(result, "data")
    THEN ResJson(response, result)
    ELSE ResJson(response, Obj("data" :> result))

respondWithSuccess(response, result) ==
    IF IsNullish(result) THEN [res |-> response, threw |-> TRUE]
    ELSE IF HasOwnProperty(result, "_raw")
    THEN ResJson(response, GetProp(result, "_raw"))
    ELSE IF HasOwnProperty(result, "_redirect")
    THEN ResRedirect(response, GetProp(result, "_redirect"))
    ELSE IF HasOwnProperty(result, "data")
    THEN ResJson(response, result)
    ELSE ResJson(response, Obj("data" :> result))

\* req.header(name) for a configured extra header: undefined when absent
ReqHeader(req, name) ==
    IF name \in DOMAIN req.headers THEN req.headers[name] ELSE Undef

\* this.headerParams.forEach(header => params[header] = req.header(header))
RECURSIVE CopyHeaders(_, _, _)
CopyHeaders(params, req, names) ==
    IF Len(names) = 0 THEN params
    ELSE CopyHeaders(SetProp(params, Head(names), ReqHeader(req, Head(names))),
                     req, Tail(names))

\* header.indexOf(scheme + ' ') == 0
StartsWithScheme(h, scheme) ==
    Len(h) >= 2 /\ h[1] = scheme /\ h[2] = " "

\* extractParams merging the body over the query string
extractParams_BodyOverQuery(method, req, inclReqId, hdrParams) ==
    LET withQuery == Obj(req.body.f @@ req.query.f)
        withBody == IF Truthy(req.rawBody)
                    THEN SetProp(withQuery, "_body", req.rawBody)
                    ELSE withQuery
        auth == req.authorization
        withAuth == IF Truthy(auth)
                       /\ (StartsWithScheme(auth.s, "Bearer")
                           \/ StartsWithScheme(auth.s, "bearer"))
                    THEN SetProp(withBody, "_auth_token",
                                 StrSeq(Split(auth.s, " ")[2]))
                    ELSE withBody
        withId == IF inclReqId /\ Truthy(req.requestId)
                  THEN SetProp(withAuth, "_request_id", req.requestId)
                  ELSE withAuth
    IN CopyHeaders(withId, req, hdrParams)

extractParams(method, req, inclReqId, hdrParams) ==
    LET withQuery == Obj(req.query.f @@ req.body.f)
        withBody == IF Truthy(req.rawBody)
                    THEN SetProp(withQuery, "_body", req.rawBody)
                    ELSE withQuery
        auth == req.authorization
        withAuth == IF Truthy(auth)
                       /\ (StartsWithScheme(auth.s, "Bearer")
                           \/ StartsWithScheme(auth.s, "bearer"))
                    THEN SetProp(withBody, "_auth_token",
                                 StrSeq(Split(auth.s, " ")[2]))
                    ELSE withBody
        withId == IF inclReqId /\ Truthy(req.requestId)
                  THEN SetProp(withAuth, "_request_id", req.requestId)
                  ELSE withAuth
    IN CopyHeaders(withId, req, hdrParams)

\* getEndpoint constructing an instance whatever the cache holds
getEndpoint_AlwaysConstructs(path, cache, count) ==
    LET class == Lookup(endpoints, path)
    IN IF class.type # "function"
       THEN [threw |-> TRUE, endpoint |-> NoValue,
             cache |-> cache, count |-> count]
       ELSE LET inst == Instance(class.methods, count + 1)
            IN [threw |-> FALSE, endpoint |-> inst,
                cache |-> (path :> inst) @@ cache, count |-> count + 1]

\* the result of getEndpoint: the instance, the cache and the count of
\* constructions after it, or threw when new throws (the registry entry is
\* no constructor)
getEndpoint(path, cache, count) ==
    IF ~Present(Lookup(cache, path))
    THEN LET class == Lookup(endpoints, path)
         IN IF class.type # "function"
            THEN [threw |-> TRUE, endpoint |-> NoValue,
                  cache |-> cache, count |-> count]
            ELSE LET inst == Instance(class.methods, count + 1)
                 IN [threw |-> FALSE, endpoint |-> inst,
                     cache |-> (path :> inst) @@ cache, count |-> count + 1]
    ELSE [threw |-> FALSE, endpoint |-> Lookup(cache, path),
          cache |-> cache, count |-> count]

NoParams == Undef

\* what one synchronous run of the Server leaves: where the request stands
\* (pc), the response sink, the cache, and what was dispatched
RunResult(pc, res, cache, count, key, dispatched, endpoint, invoked, params) ==
    [pc |-> pc, res |-> res, cache |-> cache, count |-> count, key |-> key,
     dispatched |-> dispatched, endpoint |-> endpoint, invoked |-> invoked,
     params |-> params]

\* after a respondWith...: the run is done, or threw when the response threw
Responded(r, cache, count, key, dispatched, endpoint) ==
    RunResult(IF r.threw THEN "threw" ELSE "done", r.res, cache, count,
              key, dispatched, endpoint, 0, NoParams)

\* processEndpoint without the test of endpoint[method]: calling the missing
\* method throws
processEndpoint_NoMethodTest(path, method, req, res) ==
    LET got == getEndpoint(path, endpointInstances, constructed)
    IN IF got.threw \/ method \notin got.endpoint.methods
       THEN RunResult("threw", res, got.cache, got.count, path, TRUE,
                      got.endpoint, 0, NoParams)
       ELSE RunResult("awaiting", res, got.cache, got.count, path, TRUE,
                      got.endpoint, 1,
                      extractParams(method, req, includeRequestId, headerParams))

processEndpoint(path, method, req, res) ==
    LET got == getEndpoint(path, endpointInstances, constructed)
    IN IF got.threw
       THEN RunResult("threw", res, got.cache, got.count, path, TRUE, NoValue,
                      0, NoParams)
       ELSE IF method \notin got.endpoint.methods
       THEN Responded(respondWithError(res,
                          Obj(("status" :> Num(405))
                              @@ ("message" :> Str("method not available")))),
                      got.cache, got.count, path, TRUE, got.endpoint)
       ELSE RunResult("awaiting", res, got.cache, got.count, path, TRUE,
                      got.endpoint, 1,
                      extractParams(method, req, includeRequestId, headerParams))

\* the while loop of processMethod: the first joined prefix of the segments
\* that the registry holds
RECURSIVE FindCheckPath(_)
FindCheckPath(segments) ==
    IF Len(segments) = 0 THEN [found |-> FALSE, checkPath |-> <<>>]
    ELSE LET checkPath == Join(segments, sep)
         IN IF Present(Lookup(endpoints, checkPath))
            THEN [found |-> TRUE, checkPath |-> checkPath]
            ELSE FindCheckPath(SubSeq(segments, 1, Len(segments) - 1))

processMethod(method, req, res) ==
    LET matches == MatchApi(req.originalUrl)
    IN IF ~matches.matched
       THEN RunResult("threw", res, endpointInstances, constructed, <<>>,
                      FALSE, NoValue, 0, NoParams)
       ELSE LET hit == FindCheckPath(Split(matches.apiUrl, sep))
            IN IF hit.found
               THEN processEndpoint(hit.checkPath, method, req, res)
               ELSE Responded(respondWithError(res,
                                  Obj(("status" :> Num(404))
                                      @@ ("message" :> Str("api endpoint not found")))),
                              endpointInstances, constructed, <<>>, FALSE,
                              NoValue)

\* the then and catch callbacks of processEndpoint, run when the handler's
\* promise settles: a throw inside respondWithSuccess reaches the catch
\* callback; a throw inside the catch callback is an unhandled rejection
processEndpointSettled(res, kind, v) ==
    IF kind = "resolve"
    THEN LET r == respondWithSuccess(res, v)
         IN IF r.threw THEN respondWithError(r.res, TypeError) ELSE r
    ELSE respondWithError(res, v)

----------------------------------------------------------------------------
(* Client *)

\* a promise is pending until the first resolve or reject; the later ones
\* are ignored
Pending == [state |-> "pending", value |-> Undef]
Resolve(promise, v) ==
    IF promise.state = "pending" THEN [state |-> "fulfilled", value |-> v]
    ELSE promise
Reject(promise, e) ==
    IF promise.state = "pending" THEN [state |-> "rejected", value |-> e]
    ELSE promise

\* callOptions.parser(data): the default is the identity; "rawWrap" is the
\* README's function (data) { return {_raw: data} }
ApplyParser(parser, data) ==
    IF parser = "rawWrap" THEN Obj("_raw" :> data) ELSE data

\* the methods a node-rest-client Client offers
RestClientMethods == {"get", "post", "put", "delete", "patch"}

NewClientOptions ==
    [contentType |-> Undef, method |-> Undef, parameters |-> Undef,
     data |-> Undef]

\* loadRequestMethod without its default case
loadRequestMethod_NoDefault(callOptions, clientOptions, promise) ==
    LET method == IF Truthy(callOptions.method) THEN callOptions.method
                  ELSE Str("get")
        withMethod == [clientOptions EXCEPT !.method = method]
    IN IF method \in {Str("get"), Str("delete")}
       THEN [clientOptions |-> [withMethod EXCEPT !.parameters = callOptions.params],
             promise |-> promise]
       ELSE IF method \in {Str("put"), Str("post")}
       THEN [clientOptions |-> [withMethod EXCEPT !.data = callOptions.params],
             promise |-> promise]
       ELSE [clientOptions |-> withMethod, promise |-> promise]

\* the clientOptions and the promise after loadRequestMethod
loadRequestMethod(callOptions, clientOptions, promise) ==
    LET method == IF Truthy(callOptions.method) THEN callOptions.method
                  ELSE Str("get")
        withMethod == [clientOptions EXCEPT !.method = method]
    IN IF method \in {Str("get"), Str("delete")}
       THEN [clientOptions |-> [withMethod EXCEPT !.parameters = callOptions.params],
             promise |-> promise]
       ELSE IF method \in {Str("put"), Str("post")}
       THEN [clientOptions |-> [withMethod EXCEPT !.data = callOptions.params],
             promise |-> promise]
       ELSE [clientOptions |-> withMethod,
             promise |-> Reject(promise,
                                Obj(("status" :> Num(405))
                                    @@ ("message" :> Str("method not supported"))))]

\* the callOptions, the clientOptions and the promise after loadClientOptions
loadClientOptions(callOptions, promise) ==
    LET contentType == IF Truthy(callOptions.contentType)
                       THEN callOptions.contentType
                       ELSE Str("application/json")
        options == [callOptions EXCEPT
                      !.contentType = Undef,
                      !.parser = IF @ = "" THEN "default" ELSE @]
        loaded == loadRequestMethod(options,
                      [NewClientOptions EXCEPT !.contentType = contentType],
                      promise)
    IN [callOptions |-> options, clientOptions |-> loaded.clientOptions,
        promise |-> loaded.promise]

\* what the synchronous part of call leaves
CallResult(pc, options, clientOptions, promise, cache, count, requests,
           invoked, endpoint) ==
    [pc |-> pc, options |-> options, clientOptions |-> clientOptions,
     promise |-> promise, cache |-> cache, count |-> count,
     requests |-> requests, invoked |-> invoked, endpoint |-> endpoint]

\* callRemote issuing its request once in loadClientOptions and once more
\* in the executor
callRemote_TwoRequests(endpoint, callOptions) ==
    LET loaded == loadClientOptions(callOptions, Pending)
    IN IF loaded.clientOptions.method.s[1] \in RestClientMethods
       THEN CallResult("awaitingTransport", loaded.callOptions,
                       loaded.clientOptions, loaded.promise, clientInstances,
                       constructed, 2, 0, NoValue)
       ELSE CallResult("returned", loaded.callOptions, loaded.clientOptions,
                       Reject(loaded.promise, TypeError), clientInstances,
                       constructed, 0, 0, NoValue)

\* the executor of callRemote: a verb the rest client has no method for
\* throws inside the executor, which rejects the promise
callRemote(endpoint, callOptions) ==
    LET loaded == loadClientOptions(callOptions, Pending)
    IN IF loaded.clientOptions.method.s[1] \in RestClientMethods
       THEN CallResult("awaitingTransport", loaded.callOptions,
                       loaded.clientOptions, loaded.promise, clientInstances,
                       constructed, 1, 0, NoValue)
       ELSE CallResult("returned", loaded.callOptions, loaded.clientOptions,
                       Reject(loaded.promise, TypeError), clientInstances,
                       constructed, 0, 0, NoValue)

\* the response callback of callRemote
callRemoteResponse(callOptions, promise, data) ==
    LET returnToParser == IF Truthy(GetProp(data, "data"))
                          THEN GetProp(data, "data") ELSE data
    IN Resolve(promise, ApplyParser(callOptions.parser, returnToParser))

\* the 'error' listener of callRemote
callRemoteError(promise, err) ==
    Reject(promise, Obj(("status" :> Num(500)) @@ ("message" :> err)))

\* callLocal constructing an instance whatever the cache holds
callLocal_AlwaysConstructs(endpoint, callOptions) ==
    LET options == [callOptions EXCEPT
                      !.method = IF Truthy(@) THEN @ ELSE Str("get"),
                      !.parser = IF @ = "" THEN "default" ELSE @]
    IN IF endpoint.type # "function"
       THEN CallResult("threw", options, NewClientOptions, Pending,
                       clientInstances, constructed, 0, 0, NoValue)
       ELSE LET inst == Instance(endpoint.methods, constructed + 1)
                cache == (options.endpoint :> inst) @@ clientInstances
            IN IF options.method.s[1] \in inst.methods
               THEN CallResult("awaitingHandler", options, NewClientOptions,
                               Pending, cache, constructed + 1, 0, 1, inst)
               ELSE CallResult("returned", options, NewClientOptions,
                               Reject(Pending, TypeError), cache,
                               constructed + 1, 0, 0, inst)

\* callLocal: new throws before any promise exists when the registry entry
\* is no constructor; a missing method throws inside the executor
callLocal(endpoint, callOptions) ==
    LET options == [callOptions EXCEPT
                      !.method = IF Truthy(@) THEN @ ELSE Str("get"),
                      !.parser = IF @ = "" THEN "default" ELSE @]
        cached == Lookup(clientInstances, options.endpoint)
    IN IF ~Present(cached) /\ endpoint.type # "function"
       THEN CallResult("threw", options, NewClientOptions, Pending,
                       clientInstances, constructed, 0, 0, NoValue)
       ELSE LET inst == IF Present(cached) THEN cached
                        ELSE Instance(endpoint.methods, constructed + 1)
                cache == IF Present(cached) THEN clientInstances
                         ELSE (options.endpoint :> inst) @@ clientInstances
                count == IF Present(cached) THEN constructed
                         ELSE constructed + 1
            IN IF options.method.s[1] \in inst.methods
               THEN CallResult("awaitingHandler", options, NewClientOptions,
                               Pending, cache, count, 0, 1, inst)
               ELSE CallResult("returned", options, NewClientOptions,
                               Reject(Pending, TypeError), cache, count, 0, 0,
                               inst)

\* the then and catch callbacks of callLocal
callLocalSettled(callOptions, promise, kind, v) ==
    IF kind = "resolve"
    THEN Resolve(promise, ApplyParser(callOptions.parser, v))
    ELSE Reject(promise, v)

call(callOptions) ==
    LET endpoint == Lookup(endpoints, callOptions.endpoint)
    IN IF endpoint.type = "string"
       THEN callRemote(endpoint, callOptions)
       ELSE callLocal(endpoint, callOptions)

----------------------------------------------------------------------------
(* Inputs *)

Verbs == {"get", "post", "put", "delete"}

Api(p) == <<"/", "api", "/">> \o p

\* the registry of the README's shape: local handler classes and a url
Registry1 ==
    (<<"a">> :> Local({"get", "post"}))
    @@ (<<"a", "/", "b">> :> Local({"get"}))
    @@ (<<"r">> :> Remote("https://r/api/r"))
Registry2 ==
    (<<"a", "/", "b">> :> Local(Verbs))
Registries == {Registry1, Registry2}

Platforms == {"/", "\\"}

RouterUrls ==
    {Api(<<"a">>), Api(<<"a", "/", "b">>), Api(<<"a", "/", "b", "/", "c">>),
     Api(<<"a", "/">>), Api(<<"b">>), Api(<<>>), Api(<<"a", "?", "q">>),
     Api(<<"r">>), Api(<<"constructor">>)}

Request(url, body, query, rawBody, authorization, requestId, headers) ==
    [originalUrl |-> url, body |-> body, query |-> query, rawBody |-> rawBody,
     authorization |-> authorization, requestId |-> requestId,
     headers |-> headers]

RouterRequests ==
    {Request(u, Obj("x" :> Num(1)), Obj("x" :> Num(2)), Undef, Undef, Undef,
             EmptyFcn) : u \in RouterUrls}

ResultKeys == {"_raw", "_redirect", "data", "x"}
ResultValue(k) ==
    CASE k = "_raw" -> Obj("text" :> Str("hi there"))
      [] k = "_redirect" -> Str("/elsewhere")
      [] k = "data" -> Str("wrapped")
      [] OTHER -> Num(1)

\* what a handler may resolve with: objects with any of the reserved keys,
\* a number, and nothing at all
SuccessValues ==
    {Obj([k \in ks |-> ResultValue(k)]) : ks \in SUBSET ResultKeys}
    \cup {Num(5), Null, Undef}

Failure(status, message) ==
    Obj(("status" :> Num(status)) @@ ("message" :> Str(message)))

\* what a handler may reject with: {status, message}, a status alone, a
\* thrown Error, and nothing at all
FailureValues ==
    {Failure(400, "required parameter 'text' missing"),
     Failure(404, "not found"), Failure(500, "failed"),
     Obj("status" :> Num(500)), TypeError, Undef}

\* requests that differ in every source extractParams reads
ParamKeys == {"x", "_body", "_auth_token", "_request_id", "h"}
KeySets(n) == {ks \in SUBSET ParamKeys : Cardinality(ks) <= n}
AuthHeaders ==
    {Undef, StrSeq(<<"Bearer", " ", "tok">>), StrSeq(<<"bearer", " ", "tok">>),
     StrSeq(<<"BEARER", " ", "tok">>), StrSeq(<<"Basic", " ", "tok">>)}
ParamRequests ==
    {Request(Api(<<"a">>), Obj([k \in bs |-> Str("from body")]),
             Obj([k \in qs |-> Str("from query")]), raw, auth, rid, hs) :
        bs \in KeySets(MaxBodyKeys), qs \in KeySets(MaxQueryKeys),
        raw \in {Undef, Str("raw text")}, auth \in AuthHeaders,
        rid \in {Undef, Str("rid")},
        hs \in {EmptyFcn, "h" :> Str("header value")}}

\* for the other verbs: the requests where every source has every key
ParamRequestsOther ==
    {r \in ParamRequests :
        /\ Cardinality(DOMAIN r.body.f) = MaxBodyKeys
        /\ DOMAIN r.query.f = {"x"}
        /\ r.rawBody # Undef /\ r.requestId # Undef
        /\ r.authorization = StrSeq(<<"bearer", " ", "tok">>)}

RegistryParams == <<"a">> :> Local({"get", "post", "put", "delete"})

Outcomes ==
    {<<"resolve", v>> : v \in SuccessValues}
    \cup {<<"reject", v>> : v \in FailureValues}

----------------------------------------------------------------------------
(* The Server's state machine *)

NoRequest == Request(<<>>, Obj(EmptyFcn), Obj(EmptyFcn), Undef, Undef, Undef,
                     EmptyFcn)

Idle ==
    [pc |-> "idle", method |-> "", req |-> NoRequest, key |-> <<>>,
     dispatched |-> FALSE, endpoint |-> NoValue, built |-> FALSE,
     invoked |-> 0, params |-> NoParams,
     res |-> NewResponse, settled |-> "none", value |-> Undef]

Finished(i) == reqs[i].pc \in {"done", "threw"}

\* a finished request is observed one at a time
Quiet == \A j \in Reqs : ~Finished(j)

\* express delivers a request to the callback of its verb, which runs
\* processMethod to its end or to the handler's pending promise; built
\* records that this run constructed a handler instance
Deliver(i, method, req) ==
    /\ LET run == processMethod(method, req, NewResponse)
       IN /\ reqs' = [reqs EXCEPT ![i] =
                 [pc |-> run.pc, method |-> method, req |-> req,
                  key |-> run.key, dispatched |-> run.dispatched,
                  endpoint |-> run.endpoint,
                  built |-> run.count # constructed,
                  invoked |-> run.invoked,
                  params |-> run.params, res |-> run.res,
                  settled |-> "none", value |-> Undef]]
          /\ endpointInstances' = run.cache
          /\ constructed' = run.count
    /\ UNCHANGED <<sep, endpoints, includeRequestId, headerParams, clientVars>>

routes(i, requests) ==
    /\ Quiet
    /\ reqs[i].pc = "idle"
    /\ \/ \E req \in requests["get"] : Deliver(i, "get", req)
       \/ \E req \in requests["post"] : Deliver(i, "post", req)
       \/ \E req \in requests["put"] : Deliver(i, "put", req)
       \/ \E req \in requests["delete"] : Deliver(i, "delete", req)

\* the handler's promise settles and the Server responds
HandlerSettles(i, outcomes) ==
    /\ Quiet
    /\ reqs[i].pc = "awaiting"
    /\ \E o \in outcomes :
          LET r == processEndpointSettled(reqs[i].res, o[1], o[2])
          IN reqs' = [reqs EXCEPT ![i].pc = IF r.threw THEN "threw" ELSE "done",
                                  ![i].res = r.res,
                                  ![i].settled = o[1],
                                  ![i].value = o[2]]
    /\ UNCHANGED <<sep, endpoints, includeRequestId, headerParams,
                   endpointInstances, constructed, clientVars>>

\* the request is over; its slot takes the next one
Forget(i) ==
    /\ Finished(i)
    /\ reqs' = [reqs EXCEPT ![i] = Idle]
    /\ UNCHANGED <<sep, endpoints, includeRequestId, headerParams,
                   endpointInstances, constructed, clientVars>>

----------------------------------------------------------------------------
(* The Client's state machine *)

CallOptions(endpoint, method, params, contentType, parser) ==
    [endpoint |-> endpoint, method |-> method, params |-> params,
     contentType |-> contentType, parser |-> parser]

NoCallOptions == CallOptions(<<>>, Undef, Undef, Undef, "")

IdleCall ==
    [pc |-> "idle", given |-> NoCallOptions, options |-> NoCallOptions,
     clientOptions |-> NewClientOptions, promise |-> Pending, requests |-> 0,
     invoked |-> 0, endpoint |-> NoValue, built |-> FALSE,
     settled |-> "none", value |-> Undef]

\* the endpoint keys callers ask for: registered, inherited and unknown ones
CallKeys == {<<"a">>, <<"a", "/", "b">>, <<"r">>, <<"constructor">>, <<"nope">>}
CallVerbs ==
    {Undef, Str("get"), Str("post"), Str("put"), Str("delete"), Str("head"),
     Str("patch")}
ClientCalls ==
    {CallOptions(k, m, Obj("x" :> Num(1)), ct, parser) :
        k \in CallKeys, m \in CallVerbs,
        ct \in {Undef, Str("application/x-www-form-urlencoded")},
        parser \in {"", "rawWrap"}}

\* the bodies a remote server answers with: enveloped, bare, and an error
\* envelope
TransportBodies ==
    {Obj("data" :> Obj("x" :> Num(1))), Obj("x" :> Num(1)),
     Obj("data" :> Num(0)), Obj("data" :> Null),
     Obj("error" :> Obj(("code" :> Num(404)) @@ ("message" :> Str("not found"))))}

CallOver(j) == calls[j].pc \in {"returned", "threw"}

\* a finished call is observed one at a time
QuietCalls == \A j \in Reqs : ~CallOver(j)

\* application code invokes Client.call, which runs to its return or throw;
\* built records that this run constructed a handler instance, settled and
\* value what the transport or the handler later answers
Call(j, callOptionsSet) ==
    /\ QuietCalls
    /\ calls[j].pc = "idle"
    /\ \E callOptions \in callOptionsSet :
          LET run == call(callOptions)
          IN /\ calls' = [calls EXCEPT ![j] =
                    [pc |-> run.pc, given |-> callOptions,
                     options |-> run.options,
                     clientOptions |-> run.clientOptions,
                     promise |-> run.promise, requests |-> run.requests,
                     invoked |-> run.invoked, endpoint |-> run.endpoint,
                     built |-> run.count # constructed,
                     settled |-> "none", value |-> Undef]]
             /\ clientInstances' = run.cache
             /\ constructed' = run.count
    /\ UNCHANGED <<sep, endpoints, serverVars>>

\* the transport delivers the response body to the callback
TransportResponds(j) ==
    /\ QuietCalls
    /\ calls[j].pc = "awaitingTransport"
    /\ \E data \in TransportBodies :
          calls' = [calls EXCEPT
                      ![j].pc = "returned",
                      ![j].settled = "response",
                      ![j].value = data,
                      ![j].promise = callRemoteResponse(calls[j].options,
                                                        calls[j].promise, data)]
    /\ UNCHANGED <<sep, endpoints, serverVars, clientInstances, constructed>>

\* the transport emits 'error'
TransportFails(j) ==
    /\ QuietCalls
    /\ calls[j].pc = "awaitingTransport"
    /\ calls' = [calls EXCEPT
                   ![j].pc = "returned",
                   ![j].settled = "error",
                   ![j].value = Str("ECONNREFUSED"),
                   ![j].promise = callRemoteError(calls[j].promise,
                                                  Str("ECONNREFUSED"))]
    /\ UNCHANGED <<sep, endpoints, serverVars, clientInstances, constructed>>

\* the local handler's promise settles
LocalSettles(j, outcomes) ==
    /\ QuietCalls
    /\ calls[j].pc = "awaitingHandler"
    /\ \E o \in outcomes :
          calls' = [calls EXCEPT
                      ![j].pc = "returned",
                      ![j].settled = o[1],
                      ![j].value = o[2],
                      ![j].promise = callLocalSettled(calls[j].options,
                                         calls[j].promise, o[1], o[2])]
    /\ UNCHANGED <<sep, endpoints, serverVars, clientInstances, constructed>>

\* the call is over; its slot takes the next one
ForgetCall(j) ==
    /\ CallOver(j)
    /\ calls' = [calls EXCEPT ![j] = IdleCall]
    /\ UNCHANGED <<sep, endpoints, serverVars, clientInstances, constructed>>

----------------------------------------------------------------------------
(* Specifications *)

Init ==
    /\ clientInstances = EmptyFcn
    /\ calls = [j \in Reqs |-> IdleCall]
    /\ sep \in Platforms
    /\ endpoints \in Registries
    /\ includeRequestId = TRUE
    /\ headerParams = <<>>
    /\ endpointInstances = EmptyFcn
    /\ constructed = 0
    /\ reqs = [i \in Reqs |-> Idle]

Next ==
    \E i \in Reqs :
        \/ routes(i, [v \in Verbs |-> RouterRequests])
        \/ HandlerSettles(i, Outcomes)
        \/ Forget(i)

Spec == Init /\ [][Next]_vars

\* one request at a time, over the requests that exercise extractParams
InitParams ==
    /\ clientInstances = EmptyFcn
    /\ calls = [j \in Reqs |-> IdleCall]
    /\ sep \in Platforms
    /\ endpoints = RegistryParams
    /\ includeRequestId \in BOOLEAN
    /\ headerParams \in {<<>>, <<"h">>}
    /\ endpointInstances = EmptyFcn
    /\ constructed = 0
    /\ reqs = [i \in Reqs |-> Idle]

NextParams ==
    \/ routes(1, [v \in Verbs |-> IF v = "get" THEN ParamRequests
                                   ELSE ParamRequestsOther])
    \/ HandlerSettles(1, {<<"resolve", Obj(EmptyFcn)>>})
    \/ Forget(1)

SpecParams == InitParams /\ [][NextParams]_vars

\* the Client alone, one call at a time
InitClient ==
    /\ sep \in Platforms
    /\ endpoints = Registry1
    /\ includeRequestId = TRUE
    /\ headerParams = <<>>
    /\ endpointInstances = EmptyFcn
    /\ constructed = 0
    /\ reqs = [i \in Reqs |-> Idle]
    /\ clientInstances = EmptyFcn
    /\ calls = [j \in Reqs |-> IdleCall]

NextClient ==
    \/ Call(1, ClientCalls)
    \/ TransportResponds(1)
    \/ TransportFails(1)
    \/ LocalSettles(1, Outcomes)
    \/ ForgetCall(1)

SpecClient == InitClient /\ [][NextClient]_vars

----------------------------------------------------------------------------
(* One endpoint reached both ways: call 1 goes to the url of the endpoint,  *)
(* which a Router serves with the handler class, and call 2 goes to the     *)
(* handler class registered locally.                                         *)

\* the key r is the url of the Router's endpoint a; the key a is the class
RegistryLocality ==
    (<<"a">> :> Local({"get"}))
    @@ (<<"r">> :> Remote("https://host/api/a"))

\* the originalUrl of a request to that url
UrlPath(u) == IF u = "https://host/api/a" THEN Api(<<"a">>) ELSE <<>>

LocalityCalls(key) == {CallOptions(key, Undef, Obj("x" :> Num(1)), Undef, "")}

ResolveOutcomes == {<<"resolve", v>> : v \in SuccessValues}

\* the request the rest client sends for a remote call: the parameters of a
\* get or delete travel in the query string, the data in the body
RemoteRequest(j) ==
    LET sent == calls[j].clientOptions
    IN Request(UrlPath(endpoints[calls[j].options.endpoint].url),
               IF sent.data = Undef THEN Obj(EmptyFcn) ELSE sent.data,
               IF sent.parameters = Undef THEN Obj(EmptyFcn) ELSE sent.parameters,
               Undef, Undef, Undef, EmptyFcn)

\* the request of remote call j reaches the Router
RemoteRequestArrives(j, i) ==
    /\ calls[j].pc = "awaitingTransport"
    /\ reqs[i].pc = "idle"
    /\ Deliver(i, calls[j].clientOptions.method.s[1], RemoteRequest(j))

\* the Router's json response reaches the response callback of call j
RouterResponds(j, i) ==
    /\ calls[j].pc = "awaitingTransport"
    /\ Finished(i)
    /\ reqs[i].res.sent = 1
    /\ reqs[i].res.kind = "json"
    /\ calls' = [calls EXCEPT
                   ![j].pc = "returned",
                   ![j].settled = "response",
                   ![j].value = reqs[i].res.body,
                   ![j].promise = callRemoteResponse(calls[j].options,
                                      calls[j].promise, reqs[i].res.body)]
    /\ UNCHANGED <<sep, endpoints, serverVars, clientInstances, constructed>>

InitLocality ==
    /\ sep \in Platforms
    /\ endpoints = RegistryLocality
    /\ includeRequestId = TRUE
    /\ headerParams = <<>>
    /\ endpointInstances = EmptyFcn
    /\ constructed = 0
    /\ reqs = [i \in Reqs |-> Idle]
    /\ clientInstances = EmptyFcn
    /\ calls = [j \in Reqs |-> IdleCall]

NextLocality ==
    \/ Call(1, LocalityCalls(<<"r">>))
    \/ Call(2, LocalityCalls(<<"a">>))
    \/ RemoteRequestArrives(1, 1)
    \/ HandlerSettles(1, ResolveOutcomes)
    \/ RouterResponds(1, 1)
    \/ LocalSettles(2, ResolveOutcomes)

SpecLocality == InitLocality /\ [][NextLocality]_vars

----------------------------------------------------------------------------
(* One process: the Server and the Client it hands to the handlers share    *)
(* the registry, and each keeps its own cache of handler instances.         *)

RegistryProcess == <<"a">> :> Local({"get", "post"})

ProcessRequest(p) ==
    Request(Api(p), Obj(EmptyFcn), Obj(EmptyFcn), Undef, Undef, Undef, EmptyFcn)

ProcessRequests ==
    [v \in Verbs |->
        IF v = "get" THEN {ProcessRequest(<<"a">>), ProcessRequest(<<"a", "/", "b">>)}
        ELSE {ProcessRequest(<<"a">>)}]

ProcessCalls ==
    {CallOptions(<<"a">>, m, Obj(EmptyFcn), Undef, "") : m \in {Undef, Str("put")}}

ProcessOutcomes == {<<"resolve", Obj("x" :> Num(1))>>}

InitProcess ==
    /\ sep = "/"
    /\ endpoints = RegistryProcess
    /\ includeRequestId = TRUE
    /\ headerParams = <<>>
    /\ endpointInstances = EmptyFcn
    /\ constructed = 0
    /\ reqs = [i \in Reqs |-> Idle]
    /\ clientInstances = EmptyFcn
    /\ calls = [j \in Reqs |-> IdleCall]

NextProcess ==
    \E i \in Reqs :
        \/ routes(i, ProcessRequests)
        \/ HandlerSettles(i, ProcessOutcomes)
        \/ Forget(i)
        \/ Call(i, ProcessCalls)
        \/ LocalSettles(i, ProcessOutcomes)
        \/ ForgetCall(i)

SpecProcess == InitProcess /\ [][NextProcess]_vars

----------------------------------------------------------------------------
(* Properties of the Server *)

\* the body of an error response
ErrorBody(status, message) ==
    Obj("error" :> Obj(("code" :> status) @@ ("message" :> message)))

\* the sub-path the request asks for
SubPath(i) == MatchApi(reqs[i].req.originalUrl).apiUrl

\* key is a run of leading '/'-delimited segments of path
IsSegmentPrefix(key, path) ==
    LET ks == Split(key, "/")
        ps == Split(path, "/")
    IN Len(ks) <= Len(ps) /\ \A n \in 1..Len(ks) : ks[n] = ps[n]

RegisteredPrefixes(path) ==
    {k \in DOMAIN endpoints : IsSegmentPrefix(k, path)}

LongestKey(keys) == CHOOSE k \in keys : \A o \in keys : Len(o) <= Len(k)

\* C1: every request delivered to a verb entry point gets exactly one
\* response from the Server: never a second one, and one once the Server is
\* through with the request.
C1_ExactlyOneResponse ==
    \A i \in Reqs :
        /\ reqs[i].res.sent <= 1
        /\ Finished(i) => reqs[i].res.sent = 1

HasNoReservedKey(r) ==
    /\ ~HasOwnProperty(r, "_raw")
    /\ ~HasOwnProperty(r, "_redirect")
    /\ ~HasOwnProperty(r, "data")

\* C3: a success value without _raw, _redirect and data is answered with
\* status 200 and the body {data: r}.
C3_DefaultWrap ==
    \A i \in Reqs :
        (reqs[i].settled = "resolve" /\ HasNoReservedKey(reqs[i].value))
        => /\ reqs[i].res.sent = 1
           /\ reqs[i].res.kind = "json"
           /\ reqs[i].res.status = Num(200)
           /\ reqs[i].res.body = Json(Obj("data" :> reqs[i].value))

\* C4: a success value with the key _raw is answered with exactly the value
\* under _raw as the body, whatever other keys it has.
C4_RawUnwrapped ==
    \A i \in Reqs :
        (reqs[i].settled = "resolve" /\ HasOwnProperty(reqs[i].value, "_raw"))
        => /\ reqs[i].res.sent = 1
           /\ reqs[i].res.kind = "json"
           /\ reqs[i].res.body = Json(GetProp(reqs[i].value, "_raw"))

C4_Witness ==
    \E i \in Reqs :
        /\ reqs[i].settled = "resolve"
        /\ HasOwnProperty(reqs[i].value, "_raw")
        /\ HasOwnProperty(reqs[i].value, "_redirect")
        /\ HasOwnProperty(reqs[i].value, "data")
        /\ reqs[i].res.body = Obj("text" :> Str("hi there"))

\* a failure outcome {status, message}: a 4xx or 5xx status and a string
IsFailureOutcome(e) ==
    /\ e.t = "object"
    /\ DOMAIN e.f = {"status", "message"}
    /\ e.f["status"].t = "number"
    /\ e.f["status"].n >= 400 /\ e.f["status"].n <= 599
    /\ e.f["message"].t = "string"

C6_LongestPrefix ==
    \A i \in Reqs :
        reqs[i].pc # "idle"
        => LET keys == RegisteredPrefixes(SubPath(i))
           IN /\ reqs[i].dispatched => keys # {}
              /\ keys # {} => /\ reqs[i].dispatched
                              /\ reqs[i].key = LongestKey(keys)

\* C7: a request whose sub-path has no registered key as a segment prefix is
\* answered 404 "api endpoint not found", and no handler is invoked.
C7_NotFound ==
    \A i \in Reqs :
        (reqs[i].pc # "idle" /\ RegisteredPrefixes(SubPath(i)) = {})
        => /\ reqs[i].res.sent = 1
           /\ reqs[i].res.status = Num(404)
           /\ reqs[i].res.body = ErrorBody(Num(404), Str("api endpoint not found"))
           /\ reqs[i].invoked = 0

\* the request was dispatched to a handler instance without its verb
LacksVerb(i) ==
    /\ reqs[i].dispatched
    /\ reqs[i].endpoint.type # "undefined"
    /\ reqs[i].method \notin reqs[i].endpoint.methods

\* C8: a request dispatched to a handler instance that has no method of the
\* request's verb is answered 405 "method not available", and no handler
\* method is invoked.
C8_MethodNotAvailable ==
    \A i \in Reqs :
        LacksVerb(i)
        => /\ reqs[i].pc = "done"
           /\ reqs[i].res.sent = 1
           /\ reqs[i].res.status = Num(405)
           /\ reqs[i].res.body = ErrorBody(Num(405), Str("method not available"))
           /\ reqs[i].invoked = 0
           /\ reqs[i].settled = "none"

C8_Witness ==
    \E i \in Reqs :
        /\ LacksVerb(i)
        /\ reqs[i].method = "put"
        /\ reqs[i].key = <<"a">>
        /\ reqs[i].endpoint.type = "object"

\* the sources of extractParams, in the order they are merged
HeaderNames == {headerParams[n] : n \in 1..Len(headerParams)}
HasBearerToken(req) ==
    /\ req.authorization.t = "string"
    /\ Len(req.authorization.s) >= 3
    /\ req.authorization.s[1] \in {"Bearer", "bearer"}
    /\ req.authorization.s[2] = " "
HasRequestId(req) == includeRequestId /\ req.requestId.t = "string"

\* the value of key k in the last source that has it
LastSourceValue(req, k) ==
    IF k \in HeaderNames THEN ReqHeader(req, k)
    ELSE IF k = "_request_id" /\ HasRequestId(req) THEN req.requestId
    ELSE IF k = "_auth_token" /\ HasBearerToken(req)
    THEN StrSeq(SubSeq(req.authorization.s, 3, Len(req.authorization.s)))
    ELSE IF k = "_body" /\ req.rawBody.t = "string" THEN req.rawBody
    ELSE IF k \in DOMAIN req.query.f THEN req.query.f[k]
    ELSE req.body.f[k]

\* C9: in the params handed to a handler every key carries the value of the
\* last source that has it, in the order body, query string, _body,
\* _auth_token, _request_id, configured extra headers; a key of both the
\* body and the query string that no later source has carries the query
\* string's value.
C9_LaterSourceWins ==
    \A i \in Reqs :
        reqs[i].invoked = 1
        => /\ \A k \in DOMAIN reqs[i].params.f :
                 reqs[i].params.f[k] = LastSourceValue(reqs[i].req, k)
           /\ \A k \in DOMAIN reqs[i].req.body.f \cap DOMAIN reqs[i].req.query.f :
                 (k \in DOMAIN reqs[i].params.f
                  /\ reqs[i].params.f[k] # reqs[i].req.query.f[k])
                 => \/ k \in HeaderNames
                    \/ k \in {"_body", "_auth_token", "_request_id"}

C9_Witness ==
    \E i \in Reqs :
        /\ reqs[i].invoked = 1
        /\ reqs[i].req.body.f = [k \in {"x", "h"} |-> Str("from body")]
        /\ reqs[i].req.query.f = [k \in {"x"} |-> Str("from query")]
        /\ reqs[i].params.f =
               [x |-> Str("from query"), h |-> Str("header value"),
                _auth_token |-> Str("tok")]

----------------------------------------------------------------------------
(* Properties of the Client *)

\* C2: every invocation of Client.call returns a promise, never throwing
\* synchronously, and the promise is settled, fulfilled or rejected, once
\* the transport or the handler has finished.
C2_CallSettles ==
    \A j \in Reqs :
        /\ calls[j].pc # "threw"
        /\ calls[j].pc = "returned"
           => calls[j].promise.state \in {"fulfilled", "rejected"}

\* the verb the call asks for, get when it names none
CallVerb(j) ==
    IF calls[j].given.method = Undef THEN "get" ELSE calls[j].given.method.s[1]

IsRemoteCall(j) ==
    /\ calls[j].pc # "idle"
    /\ calls[j].given.endpoint \in DOMAIN endpoints
    /\ endpoints[calls[j].given.endpoint].type = "string"

\* C10: a call on a remote endpoint with a verb other than get, post, put
\* and delete is rejected with {status: 405, message: "method not
\* supported"}.
C10_RemoteUnsupportedVerb ==
    \A j \in Reqs :
        (IsRemoteCall(j) /\ CallVerb(j) \notin {"get", "post", "put", "delete"})
        => /\ calls[j].pc # "threw"
           /\ calls[j].promise =
                 [state |-> "rejected",
                  value |-> Failure(405, "method not supported")]

C10_Witness ==
    \E j \in Reqs :
        /\ IsRemoteCall(j)
        /\ CallVerb(j) = "head"
        /\ calls[j].pc = "returned"
        /\ calls[j].promise.state = "rejected"

----------------------------------------------------------------------------
(* Result conventions, envelopes and failures *)

\* C14: a success value with the key _redirect, whatever other keys it has,
\* is answered with a redirect to that value and with no encoded body.
C14_RedirectWins ==
    \A i \in Reqs :
        (reqs[i].settled = "resolve"
         /\ HasOwnProperty(reqs[i].value, "_redirect"))
        => /\ reqs[i].res.sent = 1
           /\ reqs[i].res.kind = "redirect"
           /\ reqs[i].res.body = GetProp(reqs[i].value, "_redirect")

\* the raw result of a response body: the value under data when the body has
\* the key, whatever the value, and the body otherwise
RawResult(body) ==
    IF HasOwnProperty(body, "data") THEN GetProp(body, "data") ELSE body

\* C15: on transport success the promise is fulfilled with the parser's
\* result of the value under the body's data key whenever the body has the
\* key, and of the whole body otherwise.
C15_DataKeyUnwrapped ==
    \A j \in Reqs :
        (calls[j].settled = "response" /\ calls[j].promise.state = "fulfilled")
        => calls[j].promise.value =
               ApplyParser(calls[j].options.parser, RawResult(calls[j].value))

\* C16: a call with a key the registry does not have is rejected with a
\* failure of status 404; no handler is invoked and no request is issued.
C16_AbsentKey404 ==
    \A j \in Reqs :
        (calls[j].pc # "idle" /\ calls[j].given.endpoint \notin DOMAIN endpoints)
        => /\ calls[j].pc # "threw"
           /\ calls[j].promise.state = "rejected"
           /\ GetProp(calls[j].promise.value, "status") = Num(404)
           /\ calls[j].invoked = 0
           /\ calls[j].requests = 0

IsLocalCall(j) ==
    /\ calls[j].pc # "idle"
    /\ calls[j].given.endpoint \in DOMAIN endpoints
    /\ endpoints[calls[j].given.endpoint].type = "function"

\* C18: a call on a local endpoint with a verb its handler does not implement
\* is rejected with {status: 405, message: "method not available"}.
C18_LocalMethodNotAvailable ==
    \A j \in Reqs :
        (IsLocalCall(j)
         /\ CallVerb(j) \notin endpoints[calls[j].given.endpoint].methods)
        => /\ calls[j].pc # "threw"
           /\ calls[j].promise =
                 [state |-> "rejected",
                  value |-> Failure(405, "method not available")]
           /\ calls[j].invoked = 0

\* the call is on a registered endpoint with a verb the endpoint offers: one
\* of get, post, put, delete on a url, a method of the handler on a class
OffersVerb(j) ==
    \/ IsRemoteCall(j) /\ CallVerb(j) \in {"get", "post", "put", "delete"}
    \/ IsLocalCall(j)
       /\ CallVerb(j) \in endpoints[calls[j].given.endpoint].methods

\* C20 as stated: every call performs exactly one network request or exactly
\* one handler invocation.
C20_ExactlyOneCall ==
    \A j \in Reqs :
        calls[j].pc # "idle" => calls[j].requests + calls[j].invoked = 1

\* C20 as amended: every call performs at most one network request or
\* handler invocation, never both and never a second one after a failure,
\* and exactly one when the endpoint is registered and offers the verb.
C20_AtMostOneCall ==
    \A j \in Reqs :
        /\ calls[j].requests + calls[j].invoked <= 1
        /\ OffersVerb(j) => /\ calls[j].requests + calls[j].invoked = 1
                            /\ calls[j].requests = 1 <=> IsRemoteCall(j)

C20_Witness ==
    \E j \in Reqs :
        /\ IsRemoteCall(j)
        /\ CallVerb(j) = "post"
        /\ calls[j].settled = "error"
        /\ calls[j].promise.state = "rejected"
        /\ calls[j].requests = 1

\* a scheme word in lower case
LowerCase(word) ==
    CASE word \in {"Bearer", "bearer", "BEARER"} -> "bearer"
      [] word \in {"Basic", "basic", "BASIC"} -> "basic"
      [] OTHER -> word

\* the Authorization header has the form '<scheme> <token>' with the scheme
\* bearer in any letter case
IsBearerAnyCase(req) ==
    /\ req.authorization.t = "string"
    /\ Len(req.authorization.s) = 3
    /\ LowerCase(req.authorization.s[1]) = "bearer"
    /\ req.authorization.s[2] = " "

\* C17: a request whose Authorization header is '<scheme> <token>' with the
\* scheme bearer in any letter case gets _auth_token = token in its params;
\* with any other header the params carry no _auth_token but the one the
\* body or the query string brought.
C17_BearerAnyCase ==
    \A i \in Reqs :
        reqs[i].invoked = 1
        => LET req == reqs[i].req
               params == reqs[i].params
           IN IF IsBearerAnyCase(req)
              THEN /\ "_auth_token" \in DOMAIN params.f
                   /\ params.f["_auth_token"] = Str(req.authorization.s[3])
              ELSE IF "_auth_token" \in DOMAIN req.query.f
              THEN params.f["_auth_token"] = req.query.f["_auth_token"]
              ELSE IF "_auth_token" \in DOMAIN req.body.f
              THEN params.f["_auth_token"] = req.body.f["_auth_token"]
              ELSE "_auth_token" \notin DOMAIN params.f

----------------------------------------------------------------------------
(* Locality *)

\* C11: for every success value v, the call on the endpoint registered as a
\* url, served by the Router whose handler resolves with v, and the call on
\* the endpoint registered as the handler class, whose handler resolves with
\* v, give the caller equal outcomes.
C11_LocalityTransparent ==
    (/\ IsRemoteCall(1) /\ calls[1].pc = "returned"
     /\ IsLocalCall(2) /\ calls[2].pc = "returned"
     /\ reqs[1].settled = "resolve"
     /\ calls[2].settled = "resolve"
     /\ reqs[1].value = calls[2].value)
    => calls[1].promise = calls[2].promise

----------------------------------------------------------------------------
(* The caches of handler instances *)

\* the keys registered with a handler class
LocalKeys == {k \in DOMAIN endpoints : endpoints[k].type = "function"}

\* a step keeps every entry of a cache as it is
KeepsEntries(cache, cacheNext) ==
    \A k \in DOMAIN cache : k \in DOMAIN cacheNext /\ cacheNext[k] = cache[k]

\* C12: no step replaces or evicts a cached instance, and every dispatch to
\* a registered local key, through the Server or through the Client, uses
\* the instance the cache holds for the key: the one it held before the
\* dispatch when it held one, which is the one the first dispatch made.
C12_IdentityStableCache ==
    [][/\ KeepsEntries(endpointInstances, endpointInstances')
       /\ KeepsEntries(clientInstances, clientInstances')
       /\ \A i \in Reqs :
             (reqs[i].pc = "idle" /\ reqs'[i].dispatched
              /\ reqs'[i].key \in LocalKeys)
             => /\ reqs'[i].endpoint = endpointInstances'[reqs'[i].key]
                /\ reqs'[i].built <=> reqs'[i].key \notin DOMAIN endpointInstances
       /\ \A j \in Reqs :
             (calls[j].pc = "idle" /\ calls'[j].pc # "idle"
              /\ calls'[j].given.endpoint \in LocalKeys)
             => /\ calls'[j].endpoint = clientInstances'[calls'[j].given.endpoint]
                /\ calls'[j].built
                   <=> calls'[j].given.endpoint \notin DOMAIN clientInstances
      ]_vars

C12_Witness ==
    \E i \in Reqs, j \in Reqs :
        /\ reqs[i].dispatched /\ ~reqs[i].built
        /\ reqs[i].key = <<"a">>
        /\ reqs[i].endpoint = endpointInstances[<<"a">>]
        /\ calls[j].pc # "idle" /\ ~calls[j].built
        /\ calls[j].given.endpoint = <<"a">>
        /\ calls[j].endpoint = clientInstances[<<"a">>]

\* the handler instances alive for a key: the Server's and the Client's
LiveInstances(k) ==
    {endpointInstances[x] : x \in {k} \cap DOMAIN endpointInstances}
    \cup {clientInstances[x] : x \in {k} \cap DOMAIN clientInstances}

\* C13: at most one handler instance is alive for each endpoint key, the
\* Server's cache and the Client's taken together.
C13_OneInstancePerKey ==
    \A k \in DOMAIN endpoints : Cardinality(LiveInstances(k)) <= 1

\* requests i and j race on the first dispatch to a key: i constructed the
\* instance and is still in flight when j is dispatched to the same key
RaceOnFirstDispatch(i, j) ==
    /\ i # j
    /\ reqs[i].pc = "awaiting" /\ reqs[i].built
    /\ reqs[j].pc = "awaiting"
    /\ reqs[j].key = reqs[i].key

CallRaceOnFirstDispatch(i, j) ==
    /\ i # j
    /\ calls[i].pc = "awaitingHandler" /\ calls[i].built
    /\ calls[j].pc = "awaitingHandler"
    /\ calls[j].given.endpoint = calls[i].given.endpoint

\* C19 as stated: of two requests racing on the first dispatch to a key
\* each constructs a handler instance, two for the key in one cache.
C19_RaceConstructsTwo ==
    \A i \in Reqs, j \in Reqs :
        /\ RaceOnFirstDispatch(i, j) => reqs[j].built
        /\ CallRaceOnFirstDispatch(i, j) => calls[j].built

\* C19 as amended: the second of two requests racing on the first dispatch
\* to a key finds the instance of the first and constructs none; every
\* instance ever constructed is the entry of its key in a cache, so no key
\* had two constructed in one cache.
C19_NoLostUpdate ==
    /\ constructed = Cardinality(DOMAIN endpointInstances)
                     + Cardinality(DOMAIN clientInstances)
    /\ \A i \in Reqs, j \in Reqs :
          /\ RaceOnFirstDispatch(i, j)
             => ~reqs[j].built /\ reqs[j].endpoint = reqs[i].endpoint
          /\ CallRaceOnFirstDispatch(i, j)
             => ~calls[j].built /\ calls[j].endpoint = calls[i].endpoint

C19_Witness ==
    /\ RaceOnFirstDispatch(1, 2)
    /\ reqs[2].endpoint = reqs[1].endpoint
    /\ CallRaceOnFirstDispatch(2, 1)
    /\ calls[1].endpoint = calls[2].endpoint
    /\ constructed = 2

----------------------------------------------------------------------------
(* Frame and failure classes *)

\* C21: a call leaves the registry and the caller's request object as they
\* were: its verb, Content-Type, parser and params are after the call what
\* the caller gave.
C21_NoSideEffect ==
    /\ endpoints = Registry1
    /\ \A j \in Reqs :
          calls[j].pc # "idle"
          => /\ calls[j].options.endpoint = calls[j].given.endpoint
             /\ calls[j].options.method = calls[j].given.method
             /\ calls[j].options.contentType = calls[j].given.contentType
             /\ calls[j].options.parser = calls[j].given.parser
             /\ calls[j].options.params = calls[j].given.params

IsRange(status, low, high) ==
    status.t = "number" /\ status.n >= low /\ status.n <= high

\* the handler faulted: it rejected with a value that is no failure outcome,
\* or resolved with a value the encoding breaks on
UnexpectedFault(i) ==
    \/ reqs[i].settled = "reject" /\ ~IsFailureOutcome(reqs[i].value)
    \/ reqs[i].settled = "resolve" /\ IsNullish(reqs[i].value)

\* C22: every error response of the Server has a status from 400 to 599, and
\* a handler's unexpected fault is answered with a status from 500 to 599.
C22_ErrorStatusClass ==
    \A i \in Reqs :
        /\ (reqs[i].res.sent = 1 /\ HasOwnProperty(reqs[i].res.body, "error"))
           => IsRange(reqs[i].res.status, 400, 599)
        /\ UnexpectedFault(i)
           => /\ reqs[i].res.sent = 1
              /\ IsRange(reqs[i].res.status, 500, 599)

\* C23: a remote call rejected with {status: 405, message: "method not
\* supported"} has issued no network request.
C23_RejectedBeforeTransport ==
    \A j \in Reqs :
        (/\ IsRemoteCall(j)
         /\ calls[j].promise = [state |-> "rejected",
                                value |-> Failure(405, "method not supported")])
        => calls[j].requests = 0

====
